---- MODULE Spec2Model ----
(***************************************************************************)
(* A model of src/src/recommendation.py: the cold-start flow of main       *)
(* (get_user_ratings, the append to the rating table, train_model,         *)
(* get_recommendations) and the genre flow (ask_genres,                    *)
(* recommend_by_genre).                                                    *)
(*                                                                         *)
(* Ratings and predicted scores are reals in the program; here they are    *)
(* integers counting tenths (a rating of 4.5 is 45), and a mean is an      *)
(* exact fraction [num, den] in lowest terms.                              *)
(***************************************************************************)
EXTENDS Integers, Sequences, FiniteSets, TLC

\* ------------------------------------------------------------- bounds
\* rows of the movie table
MaxRows == 2
\* observations of the rating table as loaded
MaxRatings == 1
\* movies the cold-start collector asks about (main passes 10)
MaxK == 2
\* comma-separated entries typed at the genre prompt
MaxTokens == 2
\* observations of the rating table the genre flow reads
MaxObs == 2

\* ---------------------------------------------------- program constants
\* n=10 as main passes it to get_recommendations
MainN == 10
\* cv=3 in train_model
CvFolds == 3

GENRES ==
    << "Unknown", "Action", "Adventure", "Animation", "Children's", "Comedy",
       "Crime", "Documentary", "Drama", "Fantasy", "Film-Noir", "Horror",
       "Musical", "Mystery", "Romance", "Sci-Fi", "Thriller", "War", "Western" >>

\* Reader(rating_scale=(1, 5)), in tenths
RatingScale == << 10, 50 >>

\* ------------------------------------------------------- input domains
MovieIds == {10, 20}
TitleOf(id) == IF id = 10 THEN "A" ELSE "B"

\* what SGD can leave as the estimate of one (user, item) before clipping:
\* below the scale, inside it, above it
RawEst == {0, 30, 60}

\* what the user can type at a rating prompt
InputVals == {"abc", "nan", "0.9", "1", "5", "5.1"}

\* what the user can type between two commas at the genre prompt
Tokens == {"6", " 9", "x", "20", ""}

SeqsUpTo(S, lo, hi) == UNION {[1..m -> S] : m \in lo..hi}

Min(a, b) == IF a <= b THEN a ELSE b

Range(s) == {s[j] : j \in 1..Len(s)}

\* ------------------------------------------------------------- state
VARIABLES
    movies,        \* the movie table: rows [movie_id, title, genres]
    ratings,       \* the rating table as loaded: rows [user_id, movie_id, rating, timestamp]
    pc,            \* where the program is
    exc,           \* the exception that ended the program, "" if none
    k,             \* get_user_ratings' k
    n,             \* get_recommendations' / recommend_by_genre's n
    user_id,       \* get_recommendations' user_id
    sample,        \* get_user_ratings: the sampled rows (indices into movies), in sampling order
    i,             \* get_user_ratings: position of the for loop in sample
    val,           \* get_user_ratings: what input() returned last
    user_ratings,  \* get_user_ratings: the observations appended so far
    ratings_ext,   \* the table handed to train_model
    data,          \* train_model: the Surprise dataset (user, item, rating)
    algo,          \* train_model: the SVD object
    fold,          \* cross_validate: folds done
    tested,        \* cross_validate: dataset rows already used as a test fold
    preds,         \* get_recommendations: the predictions
    recs,          \* the frame returned to main
    fav            \* the favourite genres

vars == << movies, ratings, pc, exc, k, n, user_id, sample, i, val, user_ratings,
           ratings_ext, data, algo, fold, tested, preds, recs, fav >>

\* ------------------------------------------------------- get_user_ratings

\* float(val): a number (in tenths), NaN, or ValueError
float(v) ==
    CASE v = "0.9" -> [kind |-> "num", x |-> 9]
      [] v = "1"   -> [kind |-> "num", x |-> 10]
      [] v = "5"   -> [kind |-> "num", x |-> 50]
      [] v = "5.1" -> [kind |-> "num", x |-> 51]
      [] v = "nan" -> [kind |-> "nan", x |-> 0]
      [] OTHER     -> [kind |-> "ValueError", x |-> 0]

\* as Accepted, with the lower limit of the range test dropped
Accepted_no_lower(v) ==
    /\ float(v).kind = "num"
    /\ float(v).x <= 50

\* the try block of the while loop breaks: float(val) did not raise and 1 <= r <= 5
\* (every comparison with NaN is false)
Accepted(v) ==
    /\ float(v).kind = "num"
    /\ 10 <= float(v).x
    /\ float(v).x <= 50

\* movies[['movie_id','title']].sample(n=k): k rows without replacement, in any order
Samples(tbl, kk) ==
    {s \in [1..kk -> 1..Len(tbl)] : \A a, b \in 1..kk : a # b => s[a] # s[b]}

Sample ==
    /\ pc = "main"
    /\ IF k > Len(movies)
         THEN /\ pc' = "error"
              /\ exc' = "ValueError"
              /\ UNCHANGED sample
         ELSE /\ \E s \in Samples(movies, k) : sample' = s
              /\ pc' = IF k = 0 THEN "concat" ELSE "collect"
              /\ UNCHANGED exc
    /\ UNCHANGED << movies, ratings, k, n, user_id, i, val, user_ratings,
                    ratings_ext, data, algo, fold, tested, preds, recs, fav >>

\* one pass of the while loop for sample[i]
Prompt ==
    /\ pc = "collect"
    /\ \E v \in InputVals :
         /\ val' = v
         /\ IF Accepted(v)
              THEN /\ user_ratings' = Append(user_ratings,
                         [user_id |-> 0, movie_id |-> movies[sample[i]].movie_id,
                          rating |-> float(v).x, timestamp |-> "now"])
                   /\ i' = i + 1
                   /\ pc' = IF i = Len(sample) THEN "concat" ELSE "collect"
              ELSE UNCHANGED << user_ratings, i, pc >>
    /\ UNCHANGED << movies, ratings, exc, k, n, user_id, sample,
                    ratings_ext, data, algo, fold, tested, preds, recs, fav >>

\* as Concat, a new observation replacing the old ones of the same user and movie
Concat_overwrite(old, new) ==
    SelectSeq(old, LAMBDA r : \A j \in 1..Len(new) :
                  ~(new[j].user_id = r.user_id /\ new[j].movie_id = r.movie_id)) \o new

\* pd.concat([ratings, df_new], ignore_index=True)
Concat(old, new) == old \o new

MainConcat ==
    /\ pc = "concat"
    /\ ratings_ext' = Concat(ratings, user_ratings)
    /\ pc' = "train"
    /\ UNCHANGED << movies, ratings, exc, k, n, user_id, sample, i, val, user_ratings,
                    data, algo, fold, tested, preds, recs, fav >>

\* --------------------------------------------------------------- train_model

\* SVD(): an algorithm object that has not been fitted
SVD == [fitted |-> FALSE, trainset |-> << >>]

\* algo.fit(trainset): the trainset is stored and every parameter is allocated
\* and learned anew from it; nothing of the object's earlier state is read
fit(a, trainset) == [fitted |-> TRUE, trainset |-> trainset]

\* Dataset.load_from_df(ratings[['user_id','movie_id','rating']], reader)
load_from_df(df) == [j \in 1..Len(df) |-> << df[j].user_id, df[j].movie_id, df[j].rating >>]

\* the rows of d at the positions in S, in d's order
RowsAt(d, S) ==
    LET F[j \in 0..Len(d)] ==
            IF j = 0 THEN << >>
            ELSE IF j \in S THEN Append(F[j - 1], d[j]) ELSE F[j - 1]
    IN  F[Len(d)]

\* data.build_full_trainset()
build_full_trainset(d) == d

\* KFold: the size of test fold f (0-based) of len observations
FoldSize(len, f) == (len \div CvFolds) + (IF f < len % CvFolds THEN 1 ELSE 0)

\* lines 67-70: the dataset is built and the algorithm object created
LoadDataset ==
    /\ pc = "train"
    /\ data' = load_from_df(ratings_ext)
    /\ algo' = SVD
    /\ fold' = 0
    /\ tested' = {}
    /\ pc' = "cv"
    /\ UNCHANGED << movies, ratings, exc, k, n, user_id, sample, i, val, user_ratings,
                    ratings_ext, preds, recs, fav >>

\* cross_validate(algo, data, cv=3): one fold. The folds are the three chunks of
\* a random shuffle of the dataset: any rows not tested yet can make the next
\* test fold. The same algo object is fitted on the rest and scored on the fold;
\* the scores are dropped (train_model ignores cross_validate's result).
\* KFold raises ValueError when there are fewer observations than folds.
CrossValidateFold ==
    /\ pc = "cv"
    /\ IF Len(data) < CvFolds
         THEN /\ pc' = "error"
              /\ exc' = "ValueError"
              /\ UNCHANGED << algo, fold, tested >>
         ELSE /\ \E test \in SUBSET ((1..Len(data)) \ tested) :
                   /\ Cardinality(test) = FoldSize(Len(data), fold)
                   /\ algo' = fit(algo, RowsAt(data, (1..Len(data)) \ test))
                   /\ tested' = tested \cup test
              /\ fold' = fold + 1
              /\ pc' = IF fold + 1 = CvFolds THEN "fit" ELSE "cv"
              /\ UNCHANGED exc
    /\ UNCHANGED << movies, ratings, k, n, user_id, sample, i, val, user_ratings,
                    ratings_ext, data, preds, recs, fav >>

\* as FitFull, the fit left out: train_model returns algo as cross_validate left it
FitFull_omitted ==
    /\ pc = "fit"
    /\ pc' = "predict"
    /\ UNCHANGED << movies, ratings, exc, k, n, user_id, sample, i, val, user_ratings,
                    ratings_ext, data, algo, fold, tested, preds, recs, fav >>

\* lines 73-75: the fit on the full trainset; train_model returns algo
FitFull ==
    /\ pc = "fit"
    /\ algo' = fit(algo, build_full_trainset(data))
    /\ pc' = "predict"
    /\ UNCHANGED << movies, ratings, exc, k, n, user_id, sample, i, val, user_ratings,
                    ratings_ext, data, fold, tested, preds, recs, fav >>

\* ------------------------------------------------------- get_recommendations

\* Series.unique(): the distinct values in order of first appearance
unique(s) ==
    LET F[j \in 0..Len(s)] ==
            IF j = 0 THEN << >>
            ELSE IF s[j] \in Range(F[j - 1]) THEN F[j - 1] ELSE Append(F[j - 1], s[j])
    IN  F[Len(s)]

\* Surprise clips an estimate to the trainset's rating scale
Clip(x) == IF x < RatingScale[1] THEN RatingScale[1]
           ELSE IF x > RatingScale[2] THEN RatingScale[2] ELSE x

\* as predict, with clip=False
predict_unclipped(a, uid, iid, raw) == [uid |-> uid, iid |-> iid, est |-> raw]

\* algo.predict(uid, iid): raw is the estimate the fitted parameters give
predict(a, uid, iid, raw) == [uid |-> uid, iid |-> iid, est |-> Clip(raw)]

\* list.sort(key=lambda x: x.est, reverse=True): stable, equal keys keep their order
InsertDesc(t, p) ==
    LET c == Cardinality({j \in 1..Len(t) : t[j].est >= p.est})
    IN  SubSeq(t, 1, c) \o << p >> \o SubSeq(t, c + 1, Len(t))

SortDesc(s) ==
    LET F[j \in 0..Len(s)] == IF j = 0 THEN << >> ELSE InsertDesc(F[j - 1], s[j])
    IN  F[Len(s)]

\* s[:m] for m >= 0
Slice(s, m) == SubSeq(s, 1, Min(m, Len(s)))

\* movies[movies['movie_id'].isin(top_ids)][['movie_id','title']]
IsIn(tbl, top_ids) ==
    LET hit == SelectSeq(tbl, LAMBDA r : r.movie_id \in top_ids)
    IN  [j \in 1..Len(hit) |-> [movie_id |-> hit[j].movie_id, title |-> hit[j].title]]

\* as candidates, the movies uid has rated in a's trainset left out
candidates_unrated(tbl, a, uid) ==
    SelectSeq(unique([j \in 1..Len(tbl) |-> tbl[j].movie_id]),
              LAMBDA m : << uid, m >> \notin
                  {<< a.trainset[j][1], a.trainset[j][2] >> : j \in 1..Len(a.trainset)})

\* movies['movie_id'].unique(): every movie of the table is a candidate,
\* whatever the user has rated
candidates(tbl, a, uid) == unique([j \in 1..Len(tbl) |-> tbl[j].movie_id])

\* lines 85-86
Predict ==
    /\ pc = "predict"
    /\ LET movie_ids == candidates(movies, algo, user_id)
       IN  \E raw \in [1..Len(movie_ids) -> RawEst] :
             preds' = [j \in 1..Len(movie_ids) |->
                          predict(algo, user_id, movie_ids[j], raw[j])]
    /\ pc' = "sort"
    /\ UNCHANGED << movies, ratings, exc, k, n, user_id, sample, i, val, user_ratings,
                    ratings_ext, data, algo, fold, tested, recs, fav >>

\* line 87
SortPreds ==
    /\ pc = "sort"
    /\ preds' = SortDesc(preds)
    /\ pc' = "top"
    /\ UNCHANGED << movies, ratings, exc, k, n, user_id, sample, i, val, user_ratings,
                    ratings_ext, data, algo, fold, tested, recs, fav >>

\* lines 89-90
ReturnTop ==
    /\ pc = "top"
    /\ LET top == Slice(preds, n)
           top_ids == {top[j].iid : j \in 1..Len(top)}
       IN  recs' = IsIn(movies, top_ids)
    /\ pc' = "done"
    /\ UNCHANGED << movies, ratings, exc, k, n, user_id, sample, i, val, user_ratings,
                    ratings_ext, data, algo, fold, tested, preds, fav >>

\* ------------------------------------------------------------- ask_genres

\* x.strip().isdigit()
strip_isdigit(x) == x \in {"6", " 9", "20"}

\* int(x), for an x that passed strip_isdigit
int(x) == CASE x = "6" -> 6 [] x = " 9" -> 9 [] x = "20" -> 20 [] OTHER -> 0

\* choices is the typed line already split at its commas
ask_genres(choices) ==
    LET idxs == {int(choices[j]) : j \in {j \in 1..Len(choices) : strip_isdigit(choices[j])}}
    IN  {GENRES[x] : x \in {x \in idxs : 1 <= x /\ x <= Len(GENRES)}}

AskGenres ==
    /\ pc = "ask"
    /\ \E choices \in SeqsUpTo(Tokens, 1, MaxTokens) : fav' = ask_genres(choices)
    /\ pc' = "genre"
    /\ UNCHANGED << movies, ratings, exc, k, n, user_id, sample, i, val, user_ratings,
                    ratings_ext, data, algo, fold, tested, preds, recs >>

\* ------------------------------------------------------- recommend_by_genre

GCD(a, b) ==
    LET G[x \in 0..a, y \in 0..b] ==
            IF y = 0 THEN x
            ELSE IF x = 0 THEN y
            ELSE IF x >= y THEN G[x - y, y] ELSE G[x, y - x]
    IN  G[a, b]

\* sum / cnt as the float the division gives: two means are the same float
\* exactly when they are the same fraction
Frac(sum, cnt) == [num |-> sum \div GCD(sum, cnt), den |-> cnt \div GCD(sum, cnt)]

FracLess(x, y) == x.num * y.den < y.num * x.den

SumRatings(obs) ==
    LET F[j \in 0..Len(obs)] == IF j = 0 THEN 0 ELSE F[j - 1] + obs[j].rating
    IN  F[Len(obs)]

\* as groupby_mean, the last row of a movie standing for all of them
groupby_last(tbl) ==
    [m \in {tbl[j].movie_id : j \in 1..Len(tbl)} |->
        LET rows == SelectSeq(tbl, LAMBDA r : r.movie_id = m)
        IN  Frac(rows[Len(rows)].rating, 1)]

\* ratings.groupby('movie_id')['rating'].mean(): one entry per movie_id that has
\* at least one row, the mean over all of its rows
groupby_mean(tbl) ==
    [m \in {tbl[j].movie_id : j \in 1..Len(tbl)} |->
        LET rows == SelectSeq(tbl, LAMBDA r : r.movie_id = m)
        IN  Frac(SumRatings(rows), Len(rows))]

\* as mask, an empty selection matching every movie
mask_fallback(gl, fav_genres) == fav_genres = {} \/ (Range(gl) \cap fav_genres) # {}

\* bool(set(gl) & fav_genres)
mask(gl, fav_genres) == (Range(gl) \cap fav_genres) # {}

\* movies[mask].merge(avg, on='movie_id'): an inner join, in the movie table's order
merge(tbl, fav_genres, avg) ==
    LET hit == SelectSeq(tbl, LAMBDA r : mask(r.genres, fav_genres) /\ r.movie_id \in DOMAIN avg)
    IN  [j \in 1..Len(hit) |->
            [movie_id |-> hit[j].movie_id, title |-> hit[j].title,
             avg_rating |-> avg[hit[j].movie_id]]]

Perms(m) == {p \in [1..m -> 1..m] : \A a, b \in 1..m : a # b => p[a] # p[b]}

\* as sort_values, ascending
sort_values_ascending(c) ==
    {[j \in 1..Len(c) |-> c[p[j]]] : p \in
        {p \in Perms(Len(c)) :
            \A a, b \in 1..Len(c) : a < b => ~FracLess(c[p[b]].avg_rating, c[p[a]].avg_rating)}}

\* sort_values('avg_rating', ascending=False): pandas' default quicksort is not
\* stable, so rows of equal avg_rating come out in any order
sort_values(c) ==
    {[j \in 1..Len(c) |-> c[p[j]]] : p \in
        {p \in Perms(Len(c)) :
            \A a, b \in 1..Len(c) : a < b => ~FracLess(c[p[a]].avg_rating, c[p[b]].avg_rating)}}

RecommendByGenre ==
    /\ pc = "genre"
    /\ \E sorted \in sort_values(merge(movies, fav, groupby_mean(ratings))) :
         recs' = Slice(sorted, n)
    /\ pc' = "gdone"
    /\ UNCHANGED << movies, ratings, exc, k, n, user_id, sample, i, val, user_ratings,
                    ratings_ext, data, algo, fold, tested, preds, fav >>

\* ------------------------------------------------------------ specifications

Row(id, g) == [movie_id |-> id, title |-> TitleOf(id), genres |-> g]

Obs(u, m, r) == [user_id |-> u, movie_id |-> m, rating |-> r, timestamp |-> "t"]

\* movie tables whose genres play no part
PlainTables == SeqsUpTo({Row(id, << "Drama" >>) : id \in MovieIds}, 1, MaxRows)

\* main, choice '2': the cold-start flow
ColdRatings == SeqsUpTo({Obs(u, m, 40) : u \in {0, 1}, m \in MovieIds}, 0, MaxRatings)

Init ==
    /\ movies \in PlainTables
    /\ ratings \in ColdRatings
    /\ pc = "main"
    /\ exc = ""
    /\ k \in 0..MaxK
    /\ n = MainN
    /\ user_id = 0
    /\ sample = << >>
    /\ i = 1
    /\ val = ""
    /\ user_ratings = << >>
    /\ ratings_ext = << >>
    /\ data = << >>
    /\ algo = SVD
    /\ fold = 0
    /\ tested = {}
    /\ preds = << >>
    /\ recs = << >>
    /\ fav = {}

Next ==
    \/ Sample
    \/ Prompt
    \/ MainConcat
    \/ LoadDataset
    \/ CrossValidateFold
    \/ FitFull
    \/ Predict
    \/ SortPreds
    \/ ReturnTop

Spec == Init /\ [][Next]_vars

\* get_recommendations for any user and n, on a model train_model returns
RankRatings == SeqsUpTo({Obs(1, m, 40) : m \in MovieIds}, 0, MaxRatings + MaxK)

InitRank ==
    /\ movies \in PlainTables
    /\ ratings \in RankRatings
    /\ pc = "train"
    /\ exc = ""
    /\ k = 0
    /\ n \in 0..MaxRows
    /\ user_id \in {0, 1}
    /\ sample = << >>
    /\ i = 1
    /\ val = ""
    /\ user_ratings = << >>
    /\ ratings_ext = ratings
    /\ data = << >>
    /\ algo = SVD
    /\ fold = 0
    /\ tested = {}
    /\ preds = << >>
    /\ recs = << >>
    /\ fav = {}

NextRank ==
    \/ LoadDataset
    \/ CrossValidateFold
    \/ FitFull
    \/ Predict
    \/ SortPreds
    \/ ReturnTop

SpecRank == InitRank /\ [][NextRank]_vars

\* main, choice '1', for any n
GenreLists == {<< "Comedy" >>, << "Drama" >>}

GenreTables == SeqsUpTo({Row(id, g) : id \in MovieIds, g \in GenreLists}, 1, MaxRows)

GenreRatings == SeqsUpTo({Obs(1, m, r) : m \in MovieIds, r \in {20, 40}}, 0, MaxObs)

InitGenre ==
    /\ movies \in GenreTables
    /\ ratings \in GenreRatings
    /\ pc = "ask"
    /\ exc = ""
    /\ k = 0
    /\ n \in 0..MaxRows
    /\ user_id = 0
    /\ sample = << >>
    /\ i = 1
    /\ val = ""
    /\ user_ratings = << >>
    /\ ratings_ext = << >>
    /\ data = << >>
    /\ algo = SVD
    /\ fold = 0
    /\ tested = {}
    /\ preds = << >>
    /\ recs = << >>
    /\ fav = {}

NextGenre ==
    \/ AskGenres
    \/ RecommendByGenre

SpecGenre == InitGenre /\ [][NextGenre]_vars

\* ------------------------------------------------------------------ claims

\* the predicted score of movie m, from the predictions made
EstOf(m) == (CHOOSE p \in Range(preds) : p.iid = m).est

TableIds == {movies[j].movie_id : j \in 1..Len(movies)}

\* the observations cross_validate and fit are given
Triples == [j \in 1..Len(ratings_ext) |->
               << ratings_ext[j].user_id, ratings_ext[j].movie_id, ratings_ext[j].rating >>]

Returned == pc \in {"predict", "sort", "top", "done"}

\* C1: the list get_recommendations returns is in descending order of predicted
\* score, and two returned movies of equal score are in ascending item_id order.
C1_DescendingScore ==
    pc = "done" =>
        \A a, b \in 1..Len(recs) :
            a < b =>
                \/ EstOf(recs[a].movie_id) > EstOf(recs[b].movie_id)
                \/ /\ EstOf(recs[a].movie_id) = EstOf(recs[b].movie_id)
                   /\ recs[a].movie_id <= recs[b].movie_id

\* C3: for every movie table, also one where a movie_id is on several rows, and
\* every n >= 0, get_recommendations returns exactly min(n, number of distinct
\* movie ids) entries, with pairwise distinct movie ids.
C3_ExactlyNDistinct ==
    pc = "done" =>
        /\ Len(recs) = Min(n, Cardinality(TableIds))
        /\ \A a, b \in 1..Len(recs) : a # b => recs[a].movie_id # recs[b].movie_id

\* C7: every rating the trained model predicts lies in [1, 5], also for a user
\* or a movie that is in no training observation.
C7_PredictionsInScale ==
    \A j \in 1..Len(preds) : 10 <= preds[j].est /\ preds[j].est <= 50

\* a prediction has been made for a user and a movie the model never saw
C7_UnseenPredicted ==
    /\ pc = "sort"
    /\ \E j \in 1..Len(preds) :
         /\ \A t \in 1..Len(algo.trainset) :
               algo.trainset[t][1] # user_id /\ algo.trainset[t][2] # preds[j].iid
         /\ preds[j].est \in {10, 50}

RecIds == {recs[j].movie_id : j \in 1..Len(recs)}

\* C2 as claimed: get_recommendations returns no movie for which the rating
\* table it was trained on holds an observation by the requested user; in the
\* cold-start flow, none of the movies user 0 just rated.
C2_RatedExcluded ==
    pc = "done" =>
        \A j \in 1..Len(recs), t \in 1..Len(ratings_ext) :
            ~(ratings_ext[t].user_id = user_id /\ ratings_ext[t].movie_id = recs[j].movie_id)

\* C2 as amended: every distinct movie id of the table is predicted for, rated
\* by the user or not, and the movies returned are the first n of the sorted
\* predictions: a movie the user rated is returned whenever it is among them.
C2_RatedNotExcluded ==
    /\ pc \in {"sort", "top", "done"} => {preds[j].iid : j \in 1..Len(preds)} = TableIds
    /\ pc = "done" => RecIds = {preds[j].iid : j \in 1..Min(n, Len(preds))}

\* the cold-start flow has returned a movie user 0 just rated
C2_JustRatedReturned ==
    /\ pc = "done"
    /\ \E j \in 1..Len(user_ratings) : user_ratings[j].movie_id \in RecIds

\* the inputs that are a number in [1, 5]
ValidInput(v) == v \in {"1", "5"}

CollectorReturned == pc \in {"concat", "train", "cv", "fit", "predict", "sort", "top", "done"}

\* what C9 as claimed and as amended share: the loop is at item i with i-1
\* observations recorded, each for user 0 with a rating in [1, 5]; an invalid
\* input leaves the collector prompting; on return there are k observations
C9_Collected ==
    /\ pc = "collect" => (Len(user_ratings) = i - 1 /\ i <= k)
    /\ \A j \in 1..Len(user_ratings) :
          /\ user_ratings[j].user_id = 0
          /\ 10 <= user_ratings[j].rating /\ user_ratings[j].rating <= 50
    /\ (val # "" /\ ~ValidInput(val)) => pc = "collect"
    /\ CollectorReturned => Len(user_ratings) = k

\* C9 as claimed: no invalid answer is recorded, an invalid input re-prompts for
\* the same item, and on return there are exactly k observations on k distinct
\* items, each of user 0 with a rating in [1, 5].
C9_KDistinctItems ==
    /\ C9_Collected
    /\ CollectorReturned =>
          \A a, b \in 1..Len(user_ratings) :
              a # b => user_ratings[a].movie_id # user_ratings[b].movie_id

\* C9 as amended: the same, the k observations being one per sampled row, in
\* sampling order, on k distinct rows of the movie table (k distinct movie ids
\* only if the sampled rows hold distinct ids).
C9_KDistinctRows ==
    /\ C9_Collected
    /\ \A j \in 1..Len(user_ratings) :
          user_ratings[j].movie_id = movies[sample[j]].movie_id
    /\ \A a, b \in 1..Len(sample) : a # b => sample[a] # sample[b]
    /\ CollectorReturned =>
          (Len(sample) = k /\ \A j \in 1..k : sample[j] \in 1..Len(movies))

\* the collector has returned two observations, both of one movie id: two rows
\* of the table hold that id and both were sampled
C9_ReturnedTwoOfOneId ==
    /\ pc = "concat"
    /\ k = 2
    /\ Len(user_ratings) = 2
    /\ user_ratings[1].movie_id = user_ratings[2].movie_id
    /\ user_ratings[1].rating # user_ratings[2].rating

\* C10: the table handed to training is the loaded table, unchanged and in its
\* order, followed by the new user-0 observations, none removed or overwritten;
\* it is built before the model is fitted and before recommendations are made.
C10_AppendOnly ==
    /\ pc \in {"train", "cv", "fit", "predict", "sort", "top", "done"} =>
          /\ Len(ratings_ext) = Len(ratings) + Len(user_ratings)
          /\ \A j \in 1..Len(ratings) : ratings_ext[j] = ratings[j]
          /\ \A j \in 1..Len(user_ratings) : ratings_ext[Len(ratings) + j] = user_ratings[j]
    /\ (algo.fitted \/ preds # << >> \/ recs # << >>) =>
          pc \in {"cv", "fit", "predict", "sort", "top", "done"}
    /\ pc \in {"cv", "fit", "predict", "sort", "top", "done"} => data = Triples
    /\ Returned => algo.trainset = Triples

\* recommendations were made from a table where user 0 has an old and a new
\* observation of the same movie
C10_DuplicateKept ==
    /\ pc = "done"
    /\ \E a \in 1..Len(ratings), b \in 1..Len(user_ratings) :
          /\ ratings[a].user_id = 0
          /\ ratings[a].movie_id = user_ratings[b].movie_id

\* the rows of the movie table that share a genre with fav and have a rating
Matching ==
    SelectSeq(movies, LAMBDA r :
        /\ \E g \in fav : \E x \in 1..Len(r.genres) : r.genres[x] = g
        /\ \E t \in 1..Len(ratings) : ratings[t].movie_id = r.movie_id)

ObsOf(m) == SelectSeq(ratings, LAMBDA r : r.movie_id = m)

\* C4 as claimed: with an empty set of favourite genres recommend_by_genre
\* fails with a ValidationError and returns nothing.
C4_EmptyGenresRaise ==
    (pc \in {"gdone", "error"} /\ fav = {}) => (pc = "error" /\ exc = "ValidationError")

\* C4 as amended: with an empty set of favourite genres recommend_by_genre
\* raises nothing and returns an empty frame.
C4_EmptyGenresEmptyResult ==
    (pc = "gdone" /\ fav = {}) => (exc = "" /\ recs = << >>)

\* recommend_by_genre has returned for an empty selection although a movie is rated
C4_EmptyGenresReturned ==
    /\ pc = "gdone"
    /\ fav = {}
    /\ n >= 1
    /\ \E j \in 1..Len(movies), t \in 1..Len(ratings) : ratings[t].movie_id = movies[j].movie_id

\* C5: for a non-empty set of favourite genres every movie returned has a
\* rating and shares a genre with the favourites, and its avg_rating is the
\* mean of all its observations; movies (10,A,Comedy),(20,B,Drama) with means
\* 4.0 and 2.0 and favourites {Comedy} give exactly [(10,A,4.0)].
C5_RatedMatchingMean ==
    (pc = "gdone" /\ fav # {}) =>
        /\ \A j \in 1..Len(recs) :
              /\ \E r \in Range(movies) :
                    /\ r.movie_id = recs[j].movie_id
                    /\ r.title = recs[j].title
                    /\ Range(r.genres) \cap fav # {}
              /\ Len(ObsOf(recs[j].movie_id)) > 0
              /\ recs[j].avg_rating.num * Len(ObsOf(recs[j].movie_id))
                    = recs[j].avg_rating.den * SumRatings(ObsOf(recs[j].movie_id))
        /\ ( /\ movies = << Row(10, << "Comedy" >>), Row(20, << "Drama" >>) >>
             /\ fav = {"Comedy"}
             /\ n >= 1
             /\ Len(ObsOf(10)) > 0
             /\ SumRatings(ObsOf(10)) = 40 * Len(ObsOf(10))
             /\ Len(ObsOf(20)) > 0
             /\ SumRatings(ObsOf(20)) = 20 * Len(ObsOf(20)) )
           => recs = << [movie_id |-> 10, title |-> "A", avg_rating |-> [num |-> 40, den |-> 1]] >>

\* a movie rated twice, 2 and 4, has been returned, and another left out
C5_MeanOfTwo ==
    /\ pc = "gdone"
    /\ fav # {}
    /\ Len(recs) = 1
    /\ Len(movies) = 2
    /\ Len(ObsOf(recs[1].movie_id)) = 2
    /\ recs[1].avg_rating = [num |-> 30, den |-> 1]

\* C6 as claimed: the movies returned are in descending order of avg_rating and,
\* at equal avg_rating, in ascending movie_id order.
C6_TiesByMovieId ==
    pc = "gdone" =>
        \A a, b \in 1..Len(recs) :
            a < b =>
                \/ FracLess(recs[b].avg_rating, recs[a].avg_rating)
                \/ /\ recs[a].avg_rating = recs[b].avg_rating
                   /\ recs[a].movie_id <= recs[b].movie_id

\* C6 as amended: the movies returned are the first n of the matching rows in
\* descending order of avg_rating: min(n, matching rows) of them, none with a
\* lower avg_rating before one with a higher, and every matching row with a
\* higher avg_rating than a returned one is returned too. Rows of equal
\* avg_rating are in no particular order.
C6_DescendingAvg ==
    pc = "gdone" =>
        /\ Len(recs) = Min(n, Len(Matching))
        /\ \A a, b \in 1..Len(recs) :
              a < b => ~FracLess(recs[a].avg_rating, recs[b].avg_rating)
        /\ \A j \in 1..Len(recs), c \in 1..Len(Matching) :
              LET obs == ObsOf(Matching[c].movie_id)
              IN  FracLess(recs[j].avg_rating, Frac(SumRatings(obs), Len(obs))) =>
                      \E x \in 1..Len(recs) :
                          /\ recs[x].movie_id = Matching[c].movie_id
                          /\ recs[x].title = Matching[c].title

\* of two matching movies of different avg_rating only the better one made the cut
C6_CutAtN ==
    /\ pc = "gdone"
    /\ n = 1
    /\ Len(Matching) = 2
    /\ Len(recs) = 1
    /\ \E c \in 1..2 :
          LET obs == ObsOf(Matching[c].movie_id)
          IN  FracLess(Frac(SumRatings(obs), Len(obs)), recs[1].avg_rating)

====
